---- MODULE Spec2Model ----
(***************************************************************************)
(* A state-machine model of train.py: the multi-GPU training script of a   *)
(* Pixel-CNN++ model (graph construction, data-dependent initialisation,   *)
(* the training loop, the autoregressive sampler and the checkpoint).      *)
(*                                                                         *)
(* Floating-point numbers are modelled as exact rationals [num, den].      *)
(* The TensorFlow graph is modelled symbolically: a summed tensor is the   *)
(* sequence of the devices whose tensors were added, in the order of the   *)
(* additions.  One session run of the training op is modelled op by op:    *)
(* the executor may run any op whose inputs are ready.                     *)
(***************************************************************************)
EXTENDS Integers, Sequences, FiniteSets, TLC

(***************************************************************************)
(* Bounds of the model.  Height and Width stand for obs_shape[0] and       *)
(* obs_shape[1] (32 in the program); MaxSteps caps the number of training  *)
(* steps explored in one run.                                              *)
(***************************************************************************)
MaxGpu == 2
MaxBatch == 2
MaxExamples == 2
MaxEpochs == 2
MaxSteps == 3
MaxRestarts == 1
Height == 2
Width == 2

(***************************************************************************)
(* Program constants (command-line defaults, scaled to small rationals).   *)
(***************************************************************************)
learning_rate == 1
lr_decay_num == 2
lr_decay_den == 3
polyak_decay_num == 1
polyak_decay_den == 2
dropout_p == 5

SaveIntervals == {1, 2}
NumSamples == {1, 2}
Params == {1, 2}

\* The checkpoint file save_dir/params_Montezuma.ckpt (the path expression of
\* lines 191 and 228 is read as the file name it is meant to build).
NoCkpt == [exists |-> FALSE]
\* A checkpoint file left in save_dir by an earlier run of the program.
PriorCkpt == [exists |-> TRUE,
              live |-> [j \in Params |-> 7 * j],
              shadow |-> [j \in Params |-> [num |-> 6 * j, den |-> 1]]]

VARIABLES
    args,           \* the parsed command line
    num_examples,   \* train_data.num_examples
    pc,             \* position of the main thread
    grads,          \* grads[i][j]: symbolic gradient tensor of device i, parameter j
    loss_gen,       \* loss_gen[i]: symbolic training loss tensor
    loss_gen_test,  \* loss_gen_test[i]: symbolic evaluation loss tensor
    agg_i,          \* loop variable i of the aggregation loop
    epoch,          \* loop variable of the epoch loop
    iter,           \* number of batches the epoch iterator has yielded
    lr,             \* the Python float lr
    live,           \* values of the trainable variables
    shadow,         \* values of the moving-average variables
    ckpt,           \* the checkpoint file
    feed_dict,      \* the feed of the session run in progress or last made
    run,            \* ops of the training run in progress
    x_gen,          \* the sampler's canvases, one per device
    yi, xi,         \* the sampler's loop variables
    sample_i,       \* loop variable of the sampling loop
    train_losses,   \* the epoch's list of training bits_per_dim values
    test_bpd,       \* the list of evaluation bits-per-dimension values
    bpd_file,       \* the file save_dir/test_bpd_Montezuma.npz
    hist            \* history of the run (what happened, for the properties)

vars == <<args, num_examples, pc, grads, loss_gen, loss_gen_test, agg_i, epoch,
          iter, lr, live, shadow, ckpt, feed_dict, run, x_gen, yi, xi,
          sample_i, train_losses, test_bpd, bpd_file, hist>>

logs == <<train_losses, test_bpd, bpd_file>>

(***************************************************************************)
(* Arithmetic helpers.                                                     *)
(***************************************************************************)
RECURSIVE Pow(_, _)
Pow(b, n) == IF n = 0 THEN 1 ELSE b * Pow(b, n - 1)

RatEq(a, b) == a.num * b.den = b.num * a.den

Devices == 0 .. (args.nr_gpu - 1)

RECURSIVE Concat(_, _, _)
\* np.concatenate of parts[from], ..., parts[to]
Concat(parts, from, to) ==
    IF from > to THEN << >> ELSE parts[from] \o Concat(parts, from + 1, to)

(***************************************************************************)
(* The data stream: SequentialScheme(num_examples, batch_size) yields the  *)
(* examples in order, batch_size at a time; the last batch holds the rest. *)
(***************************************************************************)
Image(e) == 100 + e

NumBatches == (num_examples + args.batch_size - 1) \div args.batch_size

BatchLen(k) ==
    IF (k + 1) * args.batch_size <= num_examples
    THEN args.batch_size
    ELSE num_examples - k * args.batch_size

BatchAt(k) == [n \in 1 .. BatchLen(k) |-> Image(k * args.batch_size + n - 1)]

(***************************************************************************)
(* make_feed_dict.                                                         *)
(***************************************************************************)
\* (x - 127.5) / 127.5 as a rational
Rescale(v) == [num |-> 2 * v - 255, den |-> 255]

Rescaled(data) == [n \in 1 .. Len(data) |-> Rescale(data[n])]

NpSplitReversed(x, n) ==
    [ok |-> Len(x) % n = 0,
     parts |-> [i \in 0 .. (n - 1) |->
                  SubSeq(x, (n - 1 - i) * (Len(x) \div n) + 1,
                         (n - i) * (Len(x) \div n))]]

\* np.split(x, n): n equal contiguous sections, or an error
NpSplit(x, n) ==
    [ok |-> Len(x) % n = 0,
     parts |-> [i \in 0 .. (n - 1) |->
                  SubSeq(x, i * (Len(x) \div n) + 1, (i + 1) * (Len(x) \div n))]]

NoFeed == [kind |-> "none"]

make_feed_dict(data, init) ==
    IF init
    THEN [kind |-> "init", ok |-> TRUE, x_init |-> Rescaled(data)]
    ELSE [kind |-> "train",
          ok |-> NpSplit(Rescaled(data), args.nr_gpu).ok,
          xs |-> NpSplit(Rescaled(data), args.nr_gpu).parts]

\* The placeholders' static batch dimension, which a fed value must match.
x_init_shape == args.init_batch_size
xs_shape(i) == args.batch_size

FeedMatches(fd) ==
    CASE fd.kind = "init" -> Len(fd.x_init) = x_init_shape
      [] fd.kind = "train" -> \A i \in Devices : Len(fd.xs[i]) = xs_shape(i)
      [] OTHER -> TRUE

(***************************************************************************)
(* The graph.  Each use of the model template reads either the trainable   *)
(* variables or their moving averages (the ema argument), with a dropout   *)
(* rate.                                                                   *)
(***************************************************************************)
TrainNode == [params |-> "live", dropout |-> dropout_p, gradient |-> TRUE]
TestNode == [params |-> "shadow", dropout |-> 0, gradient |-> FALSE]
SampleNode == [params |-> "live", dropout |-> 0, gradient |-> FALSE]

AddTensorsFirstOnly(a, b) == a

\* a += b on tensors: a new tensor, the sum of a and b
AddTensors(a, b) == a \o b

AggregateRangeFromZero == 0 .. (args.nr_gpu - 1)

\* range(1, args.nr_gpu)
AggregateRange == 1 .. (args.nr_gpu - 1)

RECURSIVE EvalSum(_, _)
\* the value of a summed tensor, given the value of each device's tensor
EvalSum(expr, val) ==
    IF expr = << >> THEN 0 ELSE val[Head(expr)] + EvalSum(Tail(expr), val)


(***************************************************************************)
(* The opaque model function and optimizer, as deterministic stubs.        *)
(***************************************************************************)
\* the value global_variables_initializer gives parameter j
InitValue(j) == 10 * j

\* the value the init=True pass commits to parameter j from the batch x
DataDependentInit(j, x) == 20 * j + Len(x)

\* device i's gradient of its loss with respect to parameter j
Gradient(i, j) == i + j

\* device i's loss on its slice
Loss(i) == 3 + 2 * i

\* one optimizer step on a parameter value p with aggregated gradient g
AdamStep(p, g) == p - g

\* the tensor the sample graph returns for device i: a value at every position
SampleOutput(canvas) ==
    [p \in DOMAIN canvas |-> 1 + Cardinality({q \in DOMAIN canvas : canvas[q] # 0})]

(***************************************************************************)
(* Small steps of the program, as operators.                               *)
(***************************************************************************)
IsInitEpochAlways(e) == TRUE

\* epoch == 0
IsInitEpoch(e) == e = 0

DecayLrTwice(l) ==
    [num |-> l.num * lr_decay_num * lr_decay_num,
     den |-> l.den * lr_decay_den * lr_decay_den]

\* lr *= args.lr_decay
DecayLr(l) == [num |-> l.num * lr_decay_num, den |-> l.den * lr_decay_den]

\* ema.apply: shadow <- decay * shadow + (1 - decay) * value
EmaUpdate(s, value) ==
    [num |-> polyak_decay_num * s.num
               + (polyak_decay_den - polyak_decay_num) * value * s.den,
     den |-> polyak_decay_den * s.den]

Positions == (0 .. (Height - 1)) \X (0 .. (Width - 1))

ZeroCanvas == [p \in Positions |-> 0]

CommitWholeOutput(canvas, new, y, x) == new

\* x_gen[i][:,yi,xi,:] = new_x_gen_np[i][:,yi,xi,:]
CommitPosition(canvas, new, y, x) ==
    [canvas EXCEPT ![<<y, x>>] = new[<<y, x>>]]

NoRun == [gradDone |-> {}, gradSaw |-> << >>, adamDone |-> {}, emaDone |-> {}]

\* the aggregated gradient of parameter j needs every device tensor it sums
AdamReady(j) == \A k \in 1 .. Len(grads[0][j]) : grads[0][j][k] \in run.gradDone

RunFinishedWithoutEma ==
    /\ run.gradDone = Devices
    /\ run.adamDone = Params

\* sess.run returns when every op of the fetched group has run
RunFinished ==
    /\ run.gradDone = Devices
    /\ run.adamDone = Params
    /\ run.emaDone = Params

\* the divisor of bits_per_dim: args.nr_gpu*args.batch_size
BitsPerDimDivisor == args.nr_gpu * args.batch_size

\* the value fetched for bits_per_dim, as the pair (summed loss, divisor)
bits_per_dim ==
    [loss |-> EvalSum(loss_gen[0], [d \in Devices |-> Loss(d)]),
     div |-> BitsPerDimDivisor]

\* the arrays np.savez is given for the evaluation log: none
LogArrays == << >>

NoObs == [reader |-> "none"]

Observe(reader, node) ==
    [reader |-> reader, params |-> node.params, dropout |-> node.dropout,
     liveSteps |-> hist.liveSteps, shadowSteps |-> hist.shadowSteps,
     nDone |-> hist.nDone]

\* what an epoch has sampled and saved so far
NoOutput == [samples |-> 0, saved |-> FALSE]

\* the history of a process that has just started; restarts, totalSteps,
\* saved and lost are about the processes before it
NoHist ==
    [initCount |-> 0, restoreCount |-> 0, nFetched |-> 0,
     nSteps |-> 0, nDone |-> 0,
     liveSteps |-> [j \in Params |-> 0],
     shadowSteps |-> [j \in Params |-> 0],
     emaSaw |-> [j \in Params |-> "none"],
     liveHist |-> << >>,
     shadow0 |-> [j \in Params |-> [num |-> 0, den |-> 1]],
     obs |-> NoObs,
     writes |-> << >>,
     visits |-> << >>,
     epochBatches |-> << >>,
     epochSteps |-> << >>,
     cur |-> NoOutput,
     prev |-> NoOutput,
     restarts |-> 0,
     totalSteps |-> 0,
     saved |-> [done |-> FALSE, live |-> [j \in Params |-> 0], epoch |-> 0],
     lost |-> FALSE]

(***************************************************************************)
(* Initial state: the command line is parsed, nothing is built yet.        *)
(***************************************************************************)
Init ==
    /\ args \in [load_params : BOOLEAN,
                 nr_gpu : 1 .. MaxGpu,
                 batch_size : 1 .. MaxBatch,
                 init_batch_size : 1 .. MaxBatch,
                 max_epochs : 0 .. MaxEpochs,
                 save_interval : SaveIntervals,
                 num_samples : NumSamples]
    /\ num_examples \in 1 .. MaxExamples
    /\ ckpt \in {NoCkpt, PriorCkpt}
    /\ pc = "graph"
    /\ grads = << >>
    /\ loss_gen = << >>
    /\ loss_gen_test = << >>
    /\ agg_i = 0
    /\ epoch = 0
    /\ iter = 0
    /\ lr = [num |-> learning_rate, den |-> 1]
    /\ live = [j \in Params |-> 0]
    /\ shadow = [j \in Params |-> [num |-> 0, den |-> 1]]
    /\ feed_dict = NoFeed
    /\ run = NoRun
    /\ x_gen = << >>
    /\ yi = 0
    /\ xi = 0
    /\ sample_i = 0
    /\ train_losses = << >>
    /\ test_bpd = << >>
    /\ bpd_file = [written |-> FALSE]
    /\ hist = NoHist

(***************************************************************************)
(* Graph construction.                                                     *)
(***************************************************************************)
\* for i in range(args.nr_gpu): the per-device train, test and sample graphs
BuildReplicas ==
    /\ pc = "graph"
    /\ grads' = [i \in Devices |-> [j \in Params |-> <<i>>]]
    /\ loss_gen' = [i \in Devices |-> <<i>>]
    /\ loss_gen_test' = [i \in Devices |-> <<i>>]
    /\ agg_i' = 0
    /\ pc' = "aggregate"
    /\ UNCHANGED <<args, num_examples, epoch, iter, lr, live, shadow, ckpt,
                   feed_dict, run, x_gen, yi, xi, sample_i, hist,
                   logs>>

RestOfRange == {r \in AggregateRange : r >= agg_i}

\* one iteration of: for i in range(1, args.nr_gpu)
AggregateDevice ==
    /\ pc = "aggregate"
    /\ RestOfRange # {}
    /\ LET i == CHOOSE r \in RestOfRange : \A q \in RestOfRange : r <= q
       IN /\ loss_gen' = [loss_gen EXCEPT ![0] = AddTensors(@, loss_gen[i])]
          /\ loss_gen_test' =
                 [loss_gen_test EXCEPT ![0] = AddTensors(@, loss_gen_test[i])]
          /\ grads' = [grads EXCEPT ![0] =
                          [j \in Params |-> AddTensors(grads[0][j], grads[i][j])]]
          /\ agg_i' = i + 1
    /\ UNCHANGED <<args, num_examples, pc, epoch, iter, lr, live, shadow, ckpt,
                   feed_dict, run, x_gen, yi, xi, sample_i, hist,
                   logs>>

\* the training op is grouped and the session is opened
MakeTrainingOp ==
    /\ pc = "aggregate"
    /\ RestOfRange = {}
    /\ pc' = "epoch"
    /\ epoch' = 0
    /\ UNCHANGED <<args, num_examples, grads, loss_gen, loss_gen_test, agg_i,
                   iter, lr, live, shadow, ckpt, feed_dict, run, x_gen, yi, xi,
                   sample_i, hist,
                   logs>>


(***************************************************************************)
(* The epoch loop.                                                         *)
(***************************************************************************)
AsRational(f) == [j \in DOMAIN f |-> [num |-> f[j], den |-> 1]]

IterAfterInitRewound == 1 - 1

\* the position of the epoch iterator after next(iterator) took the first
\* batch for init_pass; nothing rewinds it
IterAfterInit == 1

RestoredLiveReinitialised(c) == [j \in Params |-> InitValue(j)]

\* the trainable variables saver.restore reads from the checkpoint
RestoredLive(c) == c.live

SamplingDoneAfterOne == sample_i >= 1

\* for i in range(args.num_samples): exhausted
SamplingDone == sample_i >= args.num_samples

\* for epoch in range(args.max_epochs): exhausted
Finish ==
    /\ pc = "epoch"
    /\ epoch >= args.max_epochs
    /\ pc' = "done"
    /\ UNCHANGED <<args, num_examples, grads, loss_gen, loss_gen_test, agg_i,
                   epoch, iter, lr, live, shadow, ckpt, feed_dict, run, x_gen,
                   yi, xi, sample_i, hist,
                   logs>>

\* epoch 0 of a fresh run: the initializer, then init_pass on the first batch
EpochInitFresh ==
    /\ pc = "epoch"
    /\ epoch < args.max_epochs
    /\ IsInitEpoch(epoch)
    /\ ~args.load_params
    /\ iter' = IterAfterInit
    /\ shadow' = AsRational([j \in Params |-> InitValue(j)])
    /\ feed_dict' = make_feed_dict(BatchAt(0), TRUE)
    /\ IF FeedMatches(feed_dict')
       THEN /\ live' = [j \in Params |-> DataDependentInit(j, feed_dict'.x_init)]
            /\ hist' = [hist EXCEPT !.initCount = @ + 1,
                                    !.shadow0 = shadow',
                                    !.obs = NoObs]
            /\ train_losses' = << >>
            /\ pc' = "train"
       ELSE /\ live' = [j \in Params |-> InitValue(j)]
            /\ hist' = hist
            /\ train_losses' = train_losses
            /\ pc' = "crashed"
    /\ UNCHANGED <<args, num_examples, grads, loss_gen, loss_gen_test, agg_i,
                   epoch, lr, ckpt, run, x_gen, yi, xi, sample_i, test_bpd,
                   bpd_file>>

\* epoch 0 with load_params: saver.restore
EpochRestore ==
    /\ pc = "epoch"
    /\ epoch < args.max_epochs
    /\ IsInitEpoch(epoch)
    /\ args.load_params
    /\ iter' = 0
    /\ IF ckpt.exists
       THEN /\ live' = RestoredLive(ckpt)
            /\ shadow' = ckpt.shadow
            /\ hist' = [hist EXCEPT !.restoreCount = @ + 1,
                                    !.shadow0 = ckpt.shadow]
            /\ train_losses' = << >>
            /\ pc' = "train"
       ELSE /\ UNCHANGED <<live, shadow, hist, train_losses>>
            /\ pc' = "crashed"
    /\ UNCHANGED <<args, num_examples, grads, loss_gen, loss_gen_test, agg_i,
                   epoch, lr, ckpt, feed_dict, run, x_gen, yi, xi, sample_i,
                   test_bpd, bpd_file>>

\* a later epoch: a new epoch iterator, nothing else
EpochNext ==
    /\ pc = "epoch"
    /\ epoch < args.max_epochs
    /\ ~IsInitEpoch(epoch)
    /\ iter' = 0
    /\ train_losses' = << >>
    /\ pc' = "train"
    /\ UNCHANGED <<args, num_examples, grads, loss_gen, loss_gen_test, agg_i,
                   epoch, lr, live, shadow, ckpt, feed_dict, run, x_gen, yi, xi,
                   sample_i, test_bpd, bpd_file, hist>>

(***************************************************************************)
(* One training step: the loop body up to the call of sess.run, the ops    *)
(* of the run in any order their inputs allow, and the return.             *)
(***************************************************************************)
TrainBegin ==
    /\ pc = "train"
    /\ iter < NumBatches
    /\ hist.totalSteps < MaxSteps
    /\ iter' = iter + 1
    /\ LET fd == make_feed_dict(BatchAt(iter), FALSE)
       IN IF ~fd.ok
          THEN \* np.split raises
               /\ feed_dict' = fd
               /\ lr' = lr
               /\ hist' = [hist EXCEPT !.nFetched = @ + 1]
               /\ pc' = "crashed"
               /\ run' = run
          ELSE /\ lr' = DecayLr(lr)
               /\ feed_dict' = [kind |-> fd.kind, ok |-> fd.ok, xs |-> fd.xs,
                                tf_lr |-> lr']
               /\ hist' = [hist EXCEPT !.nFetched = @ + 1, !.nSteps = @ + 1,
                                       !.emaSaw = [j \in Params |-> "none"],
                                       !.epochBatches = Append(@, iter),
                                       !.totalSteps = @ + 1]
               /\ run' = NoRun
               /\ pc' = IF FeedMatches(fd) THEN "run" ELSE "crashed"
    /\ UNCHANGED <<args, num_examples, grads, loss_gen, loss_gen_test, agg_i,
                   epoch, live, shadow, ckpt, x_gen, yi, xi, sample_i,
                   logs>>

\* device i's forward and backward pass
GradOp(i) ==
    /\ pc = "run"
    /\ i \notin run.gradDone
    /\ run' = [run EXCEPT
                 !.gradDone = @ \cup {i},
                 !.gradSaw = [d \in run.gradDone \cup {i} |->
                                IF d = i THEN hist.liveSteps ELSE @[d]]]
    /\ hist' = [hist EXCEPT !.obs = Observe("train", TrainNode)]
    /\ UNCHANGED <<args, num_examples, pc, grads, loss_gen, loss_gen_test,
                   agg_i, epoch, iter, lr, live, shadow, ckpt, feed_dict, x_gen,
                   yi, xi, sample_i,
                   logs>>

\* the optimizer's assignment to parameter j
AdamOp(j) ==
    /\ pc = "run"
    /\ j \notin run.adamDone
    /\ AdamReady(j)
    /\ live' = [live EXCEPT
                  ![j] = AdamStep(@, EvalSum(grads[0][j],
                                             [d \in Devices |-> Gradient(d, j)]))]
    /\ run' = [run EXCEPT !.adamDone = @ \cup {j}]
    /\ hist' = [hist EXCEPT !.liveSteps[j] = @ + 1]
    /\ UNCHANGED <<args, num_examples, pc, grads, loss_gen, loss_gen_test,
                   agg_i, epoch, iter, lr, shadow, ckpt, feed_dict, x_gen, yi,
                   xi, sample_i,
                   logs>>

\* the moving-average assignment to the shadow of parameter j
EmaOp(j) ==
    /\ pc = "run"
    /\ j \notin run.emaDone
    /\ shadow' = [shadow EXCEPT ![j] = EmaUpdate(@, live[j])]
    /\ run' = [run EXCEPT !.emaDone = @ \cup {j}]
    /\ hist' = [hist EXCEPT
                  !.shadowSteps[j] = @ + 1,
                  !.emaSaw[j] = IF j \in run.adamDone THEN "post" ELSE "pre"]
    /\ UNCHANGED <<args, num_examples, pc, grads, loss_gen, loss_gen_test,
                   agg_i, epoch, iter, lr, live, ckpt, feed_dict, x_gen, yi, xi,
                   sample_i,
                   logs>>

\* sess.run returns
RunEnd ==
    /\ pc = "run"
    /\ RunFinished
    /\ pc' = "train"
    /\ train_losses' = Append(train_losses, bits_per_dim)
    /\ hist' = [hist EXCEPT !.nDone = @ + 1, !.liveHist = Append(@, live)]
    /\ UNCHANGED <<args, num_examples, grads, loss_gen, loss_gen_test, agg_i,
                   epoch, iter, lr, live, shadow, ckpt, feed_dict, run, x_gen,
                   yi, xi, sample_i, test_bpd, bpd_file>>

\* the epoch's batches are exhausted: log, then sample and save or go on
TrainLoopEnd ==
    /\ pc = "train"
    /\ iter >= NumBatches
    /\ IF epoch % args.save_interval = 0
       THEN /\ pc' = "sample"
            /\ sample_i' = 0
            /\ epoch' = epoch
            /\ hist' = [hist EXCEPT
                          !.epochSteps = Append(@, hist.epochBatches),
                          !.epochBatches = << >>]
       ELSE /\ pc' = "epoch"
            /\ sample_i' = sample_i
            /\ epoch' = epoch + 1
            /\ hist' = [hist EXCEPT
                          !.epochSteps = Append(@, hist.epochBatches),
                          !.epochBatches = << >>,
                          !.prev = hist.cur,
                          !.cur = NoOutput]
    /\ UNCHANGED <<args, num_examples, grads, loss_gen, loss_gen_test, agg_i,
                   iter, lr, live, shadow, ckpt, feed_dict, run, x_gen, yi, xi,
                   logs>>

(***************************************************************************)
(* Sampling and saving.                                                    *)
(***************************************************************************)
\* sample_from_model is called: the canvases are allocated
SampleBegin ==
    /\ pc = "sample"
    /\ sample_i < args.num_samples
    /\ x_gen' = [i \in Devices |-> ZeroCanvas]
    /\ yi' = 0
    /\ xi' = 0
    /\ pc' = "sampling"
    /\ hist' = [hist EXCEPT !.writes = [i \in Devices |-> ZeroCanvas],
                            !.visits = << >>]
    /\ UNCHANGED <<args, num_examples, grads, loss_gen, loss_gen_test, agg_i,
                   epoch, iter, lr, live, shadow, ckpt, feed_dict, run,
                   sample_i,
                   logs>>

\* one pass of the inner loop: run the sample graph, commit position (yi, xi)
SampleStep ==
    /\ pc = "sampling"
    /\ yi < Height
    /\ LET new_x_gen_np == [i \in Devices |-> SampleOutput(x_gen[i])]
       IN /\ x_gen' = [i \in Devices |->
                         CommitPosition(x_gen[i], new_x_gen_np[i], yi, xi)]
          /\ hist' = [hist EXCEPT
                        !.obs = Observe("sample", SampleNode),
                        !.visits = Append(@, <<yi, xi>>),
                        !.writes = [i \in Devices |->
                                      [p \in Positions |->
                                         IF x_gen'[i][p] # x_gen[i][p]
                                         THEN @[i][p] + 1 ELSE @[i][p]]]]
    /\ IF xi + 1 < Width
       THEN xi' = xi + 1 /\ yi' = yi
       ELSE xi' = 0 /\ yi' = yi + 1
    /\ UNCHANGED <<args, num_examples, pc, grads, loss_gen, loss_gen_test,
                   agg_i, epoch, iter, lr, live, shadow, ckpt, feed_dict, run,
                   sample_i,
                   logs>>

\* sample_from_model returns the concatenated canvases
SampleReturn ==
    /\ pc = "sampling"
    /\ yi >= Height
    /\ sample_i' = sample_i + 1
    /\ pc' = "sample"
    /\ hist' = [hist EXCEPT !.cur.samples = @ + 1]
    /\ UNCHANGED <<args, num_examples, grads, loss_gen, loss_gen_test, agg_i,
                   epoch, iter, lr, live, shadow, ckpt, feed_dict, run, x_gen,
                   yi, xi,
                   logs>>

\* the samples are written, then saver.save writes the checkpoint
Save ==
    /\ pc = "sample"
    /\ SamplingDone
    /\ ckpt' = [exists |-> TRUE, live |-> live, shadow |-> shadow]
    /\ hist' = [hist EXCEPT
                  !.obs = [reader |-> "save", params |-> "all", dropout |-> 0,
                           liveSteps |-> hist.liveSteps,
                           shadowSteps |-> hist.shadowSteps,
                           nDone |-> hist.nDone],
                  !.saved = [done |-> TRUE, live |-> live, epoch |-> epoch],
                  !.prev = [samples |-> hist.cur.samples, saved |-> TRUE],
                  !.cur = NoOutput]
    /\ bpd_file' = [written |-> TRUE, arrays |-> LogArrays]
    /\ epoch' = epoch + 1
    /\ pc' = "epoch"
    /\ UNCHANGED <<args, num_examples, grads, loss_gen, loss_gen_test, agg_i,
                   iter, lr, live, shadow, feed_dict, run, x_gen, yi, xi,
                   sample_i, train_losses, test_bpd>>

(***************************************************************************)
(* The process is interrupted and the program is started again with        *)
(* --load_params: everything in memory is gone, the files are kept.  The   *)
(* new process is followed up to the start of its training loop: the       *)
(* budget of training steps is spent.                                      *)
(***************************************************************************)
Restart ==
    /\ hist.saved.done
    /\ hist.restarts < MaxRestarts
    /\ args' = [args EXCEPT !.load_params = TRUE]
    /\ pc' = "graph"
    /\ grads' = << >>
    /\ loss_gen' = << >>
    /\ loss_gen_test' = << >>
    /\ agg_i' = 0
    /\ epoch' = 0
    /\ iter' = 0
    /\ lr' = [num |-> learning_rate, den |-> 1]
    /\ live' = [j \in Params |-> 0]
    /\ shadow' = [j \in Params |-> [num |-> 0, den |-> 1]]
    /\ feed_dict' = NoFeed
    /\ run' = NoRun
    /\ x_gen' = << >>
    /\ yi' = 0
    /\ xi' = 0
    /\ sample_i' = 0
    /\ train_losses' = << >>
    /\ test_bpd' = << >>
    /\ hist' = [NoHist EXCEPT !.restarts = hist.restarts + 1,
                              !.totalSteps = MaxSteps,
                              !.saved = hist.saved,
                              !.lost = (live # ckpt.live)]
    /\ UNCHANGED <<num_examples, ckpt, bpd_file>>

Next ==
    \/ BuildReplicas
    \/ AggregateDevice
    \/ MakeTrainingOp
    \/ Finish
    \/ EpochInitFresh
    \/ EpochRestore
    \/ EpochNext
    \/ TrainBegin
    \/ \E i \in Devices : GradOp(i)
    \/ \E j \in Params : AdamOp(j)
    \/ \E j \in Params : EmaOp(j)
    \/ RunEnd
    \/ TrainLoopEnd
    \/ SampleBegin
    \/ SampleStep
    \/ SampleReturn
    \/ Save
    \/ Restart

Spec == Init /\ [][Next]_vars


(***************************************************************************)
(* Properties.                                                             *)
(***************************************************************************)

\* C1 (as stated): in every run, fresh or with load_params, init_pass has
\* run exactly once when the first training step starts.
C1_InitPassOnceInEveryRun == hist.nFetched >= 1 => hist.initCount = 1

\* C1 (amended): init_pass runs at most once in a run and never in a run
\* with load_params; in a fresh run it has completed exactly once before the
\* training loop takes its first batch; in a run with load_params the
\* checkpoint restore has completed once before that instead.
C1_InitOrRestoreBeforeTraining ==
    /\ hist.initCount <= 1
    /\ hist.restoreCount <= 1
    /\ args.load_params => hist.initCount = 0
    /\ ~args.load_params => hist.restoreCount = 0
    /\ (hist.nFetched >= 1 /\ ~args.load_params) => hist.initCount = 1
    /\ (hist.nFetched >= 1 /\ args.load_params) => hist.restoreCount = 1

C1_Witness ==
    /\ ~args.load_params
    /\ hist.initCount = 1
    /\ hist.nDone >= 1
    /\ epoch = 1


\* C2 (as stated): with full batches that the device count divides, every
\* batch the training loop takes gets exactly one parameter update, and every
\* device gradient entering it was computed against the parameters left by
\* the previous update.
C2_OneSynchronousUpdatePerBatch ==
    (args.batch_size % args.nr_gpu = 0 /\ num_examples % args.batch_size = 0)
    => /\ pc # "run" => hist.nDone = hist.nFetched
       /\ \A i \in run.gradDone :
              run.gradSaw[i] = [j \in Params |-> hist.nDone]

RECURSIVE SumOfGradients(_, _)
\* Gradient(0, j) + ... + Gradient(n - 1, j)
SumOfGradients(n, j) ==
    IF n = 0 THEN 0 ELSE SumOfGradients(n - 1, j) + Gradient(n - 1, j)

AscendingDevices == [k \in 1 .. args.nr_gpu |-> k - 1]

\* C3: once the graph is built, the gradient tensor handed to the optimizer
\* for every parameter j is the sum of the devices' gradients for j, each
\* device once, added in ascending device order; its value is the sum of the
\* devices' values; the training and test losses are summed the same way.
C3_AggregateIsOrderedSum ==
    pc \notin {"graph", "aggregate"}
    => /\ \A j \in Params :
              /\ grads[0][j] = AscendingDevices
              /\ EvalSum(grads[0][j], [d \in Devices |-> Gradient(d, j)])
                     = SumOfGradients(args.nr_gpu, j)
       /\ loss_gen[0] = AscendingDevices
       /\ loss_gen_test[0] = AscendingDevices

C3_Witness ==
    /\ pc = "epoch"
    /\ args.nr_gpu = 2
    /\ grads[0][2] = <<0, 1>>
    /\ loss_gen[0] = <<0, 1>>

\* C4 (as stated): in every training step the moving-average update of each
\* parameter reads the value the optimizer's update of that step has left.
C4_EmaReadsUpdatedValue ==
    \A j \in Params : hist.emaSaw[j] \in {"none", "post"}

RowMajor(p) == p[1] * Width + p[2]

\* C6: in every call of sample_from_model the positions are visited in
\* strictly increasing row-major order; on every device each visited position
\* has been written exactly once and still holds the value written then,
\* and each position not yet visited is still zero (so the canvas starts all
\* zero and is complete when the loops end).
C6_RasterOrderWriteOnce ==
    pc = "sampling"
    => /\ Len(hist.visits) = yi * Width + xi
       /\ Len(hist.visits) <= Height * Width
       /\ \A k \in 1 .. Len(hist.visits) :
              hist.visits[k] = <<(k - 1) \div Width, (k - 1) % Width>>
       /\ yi >= Height => Len(hist.visits) = Height * Width
       /\ \A i \in Devices : \A p \in Positions :
              IF RowMajor(p) < Len(hist.visits)
              THEN /\ hist.writes[i][p] = 1
                   /\ x_gen[i][p] = 1 + RowMajor(p)
              ELSE /\ hist.writes[i][p] = 0
                   /\ x_gen[i][p] = 0

C6_Witness ==
    /\ pc = "sampling"
    /\ yi = Height
    /\ args.nr_gpu = 2
    /\ sample_i = 1
    /\ \A i \in Devices : \A p \in Positions : hist.writes[i][p] = 1

\* C7 (as stated): every forward pass of the sampler reads the shadow
\* parameters, with dropout disabled.
C7_SamplerReadsShadow ==
    hist.obs.reader = "sample"
    => /\ hist.obs.params = "shadow"
       /\ hist.obs.dropout = 0

RECURSIVE WeightedHistory(_, _, _)
\* sum over k = 1..n of
\*   (den - num) * num^(N - k) * den^(k - 1) * (live value of j after step k)
WeightedHistory(j, n, N) ==
    IF n = 0 THEN 0
    ELSE WeightedHistory(j, n - 1, N)
         + (polyak_decay_den - polyak_decay_num)
           * Pow(polyak_decay_num, N - n) * Pow(polyak_decay_den, n - 1)
           * hist.liveHist[n][j]

\* decay^N * shadow0 + (1 - decay) * sum_k decay^(N-k) * live_k, over the
\* common denominator shadow0.den * den^N
ShadowClosedForm(j, N) ==
    [num |-> Pow(polyak_decay_num, N) * hist.shadow0[j].num
               + hist.shadow0[j].den * WeightedHistory(j, N, N),
     den |-> hist.shadow0[j].den * Pow(polyak_decay_den, N)]

\* C8 (as stated): after N completed training steps the shadow of each
\* parameter is decay^N times its initial shadow plus (1 - decay) times the
\* sum over k = 1..N of decay^(N-k) times the live value after step k.
C8_ShadowIsAverageOfUpdatedValues ==
    (pc \in {"train", "sample", "sampling", "epoch", "done"}
        /\ hist.initCount + hist.restoreCount >= 1)
    => \A j \in Params : RatEq(shadow[j], ShadowClosedForm(j, hist.nDone))

\* learning_rate * lr_decay^t
DecayedRate(t) ==
    [num |-> learning_rate * Pow(lr_decay_num, t), den |-> Pow(lr_decay_den, t)]

\* C9: the learning rate fed to the t-th training step is
\* learning_rate * lr_decay^t; between steps lr is learning_rate * lr_decay^n
\* for the n steps run so far, whatever the epoch, sampling or saving done
\* in between, and whatever the batches held.
C9_LearningRateDecay ==
    /\ pc = "run" => /\ RatEq(feed_dict.tf_lr, DecayedRate(hist.nDone + 1))
                     /\ RatEq(lr, DecayedRate(hist.nDone + 1))
    /\ pc \notin {"run", "crashed"} => RatEq(lr, DecayedRate(hist.nDone))

C9_Witness ==
    /\ pc = "run"
    /\ hist.nDone = 2
    /\ epoch = 1
    /\ feed_dict.tf_lr = [num |-> 8, den |-> 27]

\* the batch the training loop took last
LastBatch == BatchAt(iter - 1)

\* C10: whenever make_feed_dict has split a batch of B examples over D
\* devices, D divides B, device i holds the i-th contiguous run of B/D
\* rescaled examples, and the slices concatenated in device order are the
\* rescaled batch in its order; the split fails exactly when D does not
\* divide B.
C10_SplitThenConcat ==
    (feed_dict.kind = "train" /\ pc \in {"run", "crashed"})
    => /\ feed_dict.ok <=> Len(LastBatch) % args.nr_gpu = 0
       /\ feed_dict.ok
          => /\ \A i \in Devices :
                    /\ Len(feed_dict.xs[i]) * args.nr_gpu = Len(LastBatch)
                    /\ \A m \in 1 .. Len(feed_dict.xs[i]) :
                           feed_dict.xs[i][m]
                             = Rescale(LastBatch[i * Len(feed_dict.xs[i]) + m])
             /\ Concat(feed_dict.xs, 0, args.nr_gpu - 1) = Rescaled(LastBatch)

C10_Witness ==
    /\ feed_dict.kind = "train"
    /\ feed_dict.ok
    /\ args.nr_gpu = 2
    /\ Len(LastBatch) = 2
    /\ Len(feed_dict.xs[1]) = 1


\* C11 (as stated): when nr_gpu does not divide batch_size, no device work
\* is ever done: no initialization pass, no restore, no sampling pass, no
\* training step, and the parameters are never written.
C11_FailsBeforeDeviceWork ==
    args.batch_size % args.nr_gpu # 0
    => /\ hist.initCount = 0
       /\ hist.restoreCount = 0
       /\ hist.nSteps = 0
       /\ hist.obs = NoObs
       /\ live = [j \in Params |-> 0]
       /\ shadow = [j \in Params |-> [num |-> 0, den |-> 1]]

C15_EvalLogHoldsEvalValues ==
    bpd_file.written
    => /\ bpd_file.arrays = <<test_bpd>>
       /\ test_bpd # << >>

\* C16 (as stated): in every training step the slice make_feed_dict gives
\* device i has the batch_size examples that placeholder xs[i] requires.
C16_EachDeviceFedBatchSize ==
    (feed_dict.kind = "train" /\ feed_dict.ok /\ pc \in {"run", "crashed"})
    => \A i \in Devices : Len(feed_dict.xs[i]) = xs_shape(i)

\* C17 (as stated): the batch fed to the initialization pass has exactly
\* the init_batch_size examples that placeholder x_init requires.
C17_InitFedInitBatchSize ==
    feed_dict.kind = "init" => Len(feed_dict.x_init) = x_init_shape

\* C19 (as stated): in a fresh run, when the first training step starts,
\* every shadow parameter equals its live parameter.
C19_ShadowEqualsLiveAtFirstStep ==
    (~args.load_params /\ pc = "run" /\ hist.nSteps = 1 /\ run = NoRun)
    => \A j \in Params : RatEq(shadow[j], [num |-> live[j], den |-> 1])

\* C13: in a process restarted with load_params after an interruption that
\* followed a completed save, the live parameters at the start of training
\* are exactly the live parameters as they were at the most recent
\* completed save, and that save was taken in an epoch e with
\* e % save_interval = 0; whatever the interrupted process did to them
\* after that save is gone.
C13_RestartRestoresLastSave ==
    /\ hist.saved.done => hist.saved.epoch % args.save_interval = 0
    /\ (hist.restarts >= 1 /\ pc = "train" /\ epoch = 0)
       => /\ hist.restoreCount = 1
          /\ hist.initCount = 0
          /\ hist.saved.done
          /\ live = hist.saved.live

C13_Witness ==
    /\ hist.restarts >= 1
    /\ hist.lost
    /\ pc = "train"
    /\ epoch = 0
    /\ live = hist.saved.live
    /\ live # [j \in Params |-> 0]

\* C14: no sampling pass and no checkpoint save happens while a training
\* step is open, a training step only runs while its epoch has neither
\* sampled nor saved, and a training step of epoch e+1 only runs after all
\* num_samples sampling calls and the save of a save epoch e have completed.
C14_SamplingAndSavingSerial ==
    /\ pc \in {"sample", "sampling"}
       => /\ hist.nSteps = hist.nDone
          /\ run = NoRun \/ RunFinished
    /\ pc = "run"
       => /\ hist.cur = NoOutput
          /\ (epoch >= 1 /\ (epoch - 1) % args.save_interval = 0)
             => /\ hist.prev.samples = args.num_samples
                /\ hist.prev.saved

C14_Witness ==
    /\ pc = "run"
    /\ epoch >= 1
    /\ (epoch - 1) % args.save_interval = 0
    /\ args.num_samples = 2
    /\ hist.prev.samples = 2
    /\ hist.prev.saved

\* the first batch of epoch e that the training loop gets
FirstTrainBatch(e) == IF ~args.load_params /\ e = 0 THEN 1 ELSE 0

TrainedBatches(e, upto) ==
    [k \in 1 .. (upto - FirstTrainBatch(e)) |-> FirstTrainBatch(e) + k - 1]

====
